---- MODULE Spec2Model ----
(***************************************************************************)
(* A model of kino-scraper: KinoScraper (main.py), its sqlite store         *)
(* (database.py) and the hand-over to EmailSender (email_sender.py).        *)
(*                                                                          *)
(* One process runs main() to completion or dies on an uncaught exception;  *)
(* an external scheduler starts the next run.  The upstream listing is      *)
(* fixed for the whole behaviour; what varies from fetch to fetch is the    *)
(* outcome of each network call and of each sqlite statement.               *)
(***************************************************************************)
EXTENDS Integers, Sequences, FiniteSets, TLC

(***************************************************************************)
(* Bounds of the model.                                                     *)
(***************************************************************************)
\* length of the date window (range(10) in _get_dates_range)
W == 2
\* number of runs of main() the scheduler starts
MaxRuns == 2

(***************************************************************************)
(* Values.                                                                  *)
(***************************************************************************)
BASE_URL == "https://www.kinonh.pl/"

\* Python's None for a movie id; like 0 it is falsy under `not movie_id`
None == 0

\* the days of the window, as offsets from today
Dates == 1..W

\* one <div class="pastyt"> of a listing fragment as the parse resolves it:
\* tyt = FALSE when the <a class="tyt"> is absent; times are the texts of the
\* <a class="xseans"> of the next sibling <div class="seanserep"> (none when
\* there is no such sibling or anchor)
eA1 == [tyt |-> TRUE, title |-> "A", href |-> "a1", times |-> <<"18:00">>]
eA2 == [tyt |-> TRUE, title |-> "A", href |-> "a2", times |-> <<"18:00", "20:30">>]
eA3 == [tyt |-> TRUE, title |-> "A", href |-> "a1", times |-> <<"21:00">>]
eB1 == [tyt |-> TRUE, title |-> "B", href |-> "b1", times |-> <<>>]
eNoTag == [tyt |-> FALSE, title |-> "", href |-> "", times |-> <<"18:00">>]

\* the "lista" payloads a date can have; <<>> is the empty payload
Pages == { <<>>, <<eNoTag, eA2, eB1>>, <<eB1, eA1, eA3>> }

\* what the three extractions of a detail page resolve to
DetailPages ==
    { [genre |-> "Dramat", description |-> "opis", countries |-> "USA, UK", year |-> "2021"] }

\* the store: the rows of movies and screenings, and sqlite_sequence of movies
EmptyStore == [movies |-> {}, screenings |-> {}, seq |-> 0]

Row(id, title, genre, description, year, countries) ==
    [id |-> id, title |-> title, genre |-> genre, description |-> description,
     year |-> year, countries |-> countries]

rowA == Row(1, "A", "Komedia", "stary opis", "2021", "PL")
rowAold == Row(1, "A", "Komedia", "stary opis", "2020", "PL")

\* stores a first run can find: empty, or title A known (with the year its detail
\* page shows, or with another year) with one screening
InitStores ==
    { EmptyStore,
      [movies |-> {rowA}, screenings |-> {<<1, 1, "18:00">>}, seq |-> 1],
      [movies |-> {rowAold}, screenings |-> {<<1, 1, "18:00">>}, seq |-> 1] }

VARIABLES
    pc,           \* position of the process in main()
    run,          \* number of runs started
    listing,      \* upstream: date -> payload of rep.json?dzien=date
    disk,         \* the committed content of movies.db
    db,           \* the content seen through the open connection (with pending writes)
    movies,       \* self.movies, in insertion order
    dateIdx,      \* position of the loop over _get_dates_range()
    detIdx,       \* position of the loop over self.movies.values()
    knownAtStart, \* titles in the store when the run started
    diskAtStart,  \* the store when the run started
    stream,       \* the (date, title, link, times) tuples that reached the aggregation
    detailStatus, \* title -> outcome of its detail fetch in this run
    saveStatus,   \* title -> outcome of its save_movie / save_screenings in this run
    handed,       \* the list passed to send_email, in a one-element sequence
    lastListing,  \* outcome of the latest listing fetch
    faulted,      \* some fetch or store operation has failed in some run
    saveCalls,    \* title -> number of calls of save_movie for it in this run
    lastExisting, \* the titles the latest dedup check got from the store
    soup,         \* the texts of the <div class="f4 crrow"> of a detail page
    production    \* what _fetch_production returned for soup, in a one-element sequence

vars == <<pc, run, listing, disk, db, movies, dateIdx, detIdx, knownAtStart,
          diskAtStart, stream, detailStatus, saveStatus, handed, lastListing, faulted,
          saveCalls, lastExisting, soup, production>>

Titles(store) == { r.title : r \in store.movies }

TitleSet == {"A", "B"}

(***************************************************************************)
(* database.py                                                             *)
(***************************************************************************)

\* SELECT title, year FROM movies; on sqlite3.Error the method returns []
fetch_movie_titles_and_years(store, fails) ==
    IF fails THEN {} ELSE { <<r.title, r.year>> : r \in store.movies }

\* UPDATE movies SET genre, description, countries WHERE id = movie_id
update_movie(store, movie_id, genre, description, countries) ==
    [store EXCEPT !.movies =
        { IF r.id = movie_id
            THEN [r EXCEPT !.genre = genre, !.description = description,
                           !.countries = countries]
            ELSE r : r \in store.movies }]

\* insert_movie with the values of title and genre bound to each other's column
insert_movie_swapped(store, title, genre, description, year, countries) ==
    [store EXCEPT !.movies = @ \cup {Row(store.seq + 1, genre, title, description,
                                         year, countries)},
                  !.seq = @ + 1]

\* INSERT INTO movies ...; the new id is AUTOINCREMENT's, returned as lastrowid
insert_movie(store, title, genre, description, year, countries) ==
    [store EXCEPT !.movies = @ \cup {Row(store.seq + 1, title, genre, description,
                                         year, countries)},
                  !.seq = @ + 1]

\* save_movie without the lookup of the (title, year) pair: it always inserts
save_movie_insert_only(store, title, genre, description, year, countries, fail) ==
    IF fail = "execute"
      THEN [store |-> store, id |-> None, commit |-> FALSE]
      ELSE LET written == insert_movie(store, title, genre, description, year, countries)
           IN  IF fail = "commit"
                 THEN [store |-> written, id |-> None, commit |-> FALSE]
                 ELSE [store |-> written, id |-> store.seq + 1, commit |-> TRUE]

\* save_movie: fail = "none", "execute" (the SELECT or the write raises
\* sqlite3.Error) or "commit" (the commit raises it, the write stays pending).
\* The result is the connection's store, the returned id, and whether it committed.
save_movie(store, title, genre, description, year, countries, fail) ==
    IF fail = "execute"
      THEN [store |-> store, id |-> None, commit |-> FALSE]
      ELSE LET found == { r \in store.movies : r.title = title /\ r.year = year }
               movie_id == IF found # {} THEN (CHOOSE r \in found : TRUE).id
                                         ELSE store.seq + 1
               written == IF found # {}
                            THEN update_movie(store, movie_id, genre, description, countries)
                            ELSE insert_movie(store, title, genre, description, year, countries)
           IN  IF fail = "commit"
                 THEN [store |-> written, id |-> None, commit |-> FALSE]
                 ELSE [store |-> written, id |-> movie_id, commit |-> TRUE]

\* the (date, time) pairs of a screenings dict in iteration order: dates in
\* insertion order (ascending, the window is walked in order), times in list order
RECURSIVE DateTimes(_, _)
DateTimes(screenings, d) ==
    IF d > W THEN <<>>
    ELSE (IF d \in DOMAIN screenings
            THEN [i \in 1..Len(screenings[d]) |-> <<d, screenings[d][i]>>]
            ELSE <<>>)
         \o DateTimes(screenings, d + 1)

\* save_screenings without the check of movie_id
save_screenings_unchecked(store, movie_id, screenings, failAt) ==
    LET pairs == DateTimes(screenings, 1)
        n == Len(pairs)
        done == IF failAt = 0 THEN n ELSE failAt - 1
        rows == { <<movie_id, pairs[i][1], pairs[i][2]>> : i \in 1..done }
    IN  [store |-> [store EXCEPT !.screenings = @ \cup rows],
         commit |-> failAt = 0]

\* save_screenings without its commit
save_screenings_uncommitted(store, movie_id, screenings, failAt) ==
    IF movie_id = None
      THEN [store |-> store, commit |-> FALSE]
      ELSE LET pairs == DateTimes(screenings, 1)
               n == Len(pairs)
               done == IF failAt = 0 THEN n ELSE failAt - 1
               rows == { <<movie_id, pairs[i][1], pairs[i][2]>> : i \in 1..done }
           IN  [store |-> [store EXCEPT !.screenings = @ \cup rows],
                commit |-> FALSE]

\* save_screenings: failAt = 0 (no error), k in 1..n (the k-th INSERT OR IGNORE
\* raises) or n+1 (the commit raises)
save_screenings(store, movie_id, screenings, failAt) ==
    IF movie_id = None
      THEN [store |-> store, commit |-> FALSE]
      ELSE LET pairs == DateTimes(screenings, 1)
               n == Len(pairs)
               done == IF failAt = 0 THEN n ELSE failAt - 1
               rows == { <<movie_id, pairs[i][1], pairs[i][2]>> : i \in 1..done }
           IN  [store |-> [store EXCEPT !.screenings = @ \cup rows],
                commit |-> failAt = 0]

(***************************************************************************)
(* main.py: KinoScraper                                                    *)
(***************************************************************************)

\* any(movie[0] == title for movie in existing_movies)
IsKnown(title, existing) == \E m \in existing : m[1] = title

\* f"{self.base_url}{title_tag['href']}"
Link(href) == BASE_URL \o href

IndexOf(mv, title) == { i \in 1..Len(mv) : mv[i].title = title }

\* Aggregate with the link assigned on every occurrence
Aggregate_relink(mv, d, e) ==
    LET mv1 == IF IndexOf(mv, e.title) = {}
                 THEN Append(mv, [title |-> e.title, link |-> Link(e.href),
                                  screenings |-> <<>>, details |-> <<>>])
                 ELSE mv
        i == CHOOSE j \in IndexOf(mv1, e.title) : TRUE
        s == mv1[i].screenings
    IN  [mv1 EXCEPT ![i].link = Link(e.href),
                    ![i].screenings =
            [dd \in (DOMAIN s) \cup {d} |-> IF dd = d THEN e.times ELSE s[dd]]]

\* lines 92-94: create the record on the first occurrence, then set the date key
Aggregate(mv, d, e) ==
    LET mv1 == IF IndexOf(mv, e.title) = {}
                 THEN Append(mv, [title |-> e.title, link |-> Link(e.href),
                                  screenings |-> <<>>, details |-> <<>>])
                 ELSE mv
        i == CHOOSE j \in IndexOf(mv1, e.title) : TRUE
        s == mv1[i].screenings
    IN  [mv1 EXCEPT ![i].screenings =
            [dd \in (DOMAIN s) \cup {d} |-> IF dd = d THEN e.times ELSE s[dd]]]

\* the loop over soup.find_all('div', class_='pastyt')
RECURSIVE ParseEntries(_, _, _, _)
ParseEntries(mv, d, page, existing) ==
    IF page = <<>> THEN mv
    ELSE LET e == Head(page)
             mv1 == IF e.tyt /\ ~IsKnown(e.title, existing)
                      THEN Aggregate(mv, d, e)
                      ELSE mv
         IN  ParseEntries(mv1, d, Tail(page), existing)

\* the tuples of one date that reach lines 88-94
Fed(d, page, existing) ==
    LET keep(e) == e.tyt /\ ~IsKnown(e.title, existing)
        kept == SelectSeq(page, keep)
    IN  [i \in 1..Len(kept) |->
            [date |-> d, title |-> kept[i].title, link |-> Link(kept[i].href),
             times |-> kept[i].times]]

NoStatus == [t \in TitleSet |-> "none"]

NoCalls == [t \in TitleSet |-> 0]

\* line 208-218: the list built from every value of self.movies
NewMovie(m) ==
    [title |-> m.title,
     link |-> m.link,
     genre |-> IF m.details = <<>> THEN "Not available" ELSE m.details[1].genre,
     description |-> IF m.details = <<>> THEN "Not available" ELSE m.details[1].description,
     production_year |-> IF m.details = <<>> THEN "Unknown" ELSE m.details[1].year,
     screening_times |->
        LET ds == DOMAIN m.screenings
            ord == CHOOSE f \in [1..Cardinality(ds) -> ds] :
                      \A i, j \in 1..Cardinality(ds) : i < j => f[i] < f[j]
        IN  [i \in 1..Cardinality(ds) |-> [date |-> ord[i], times |-> m.screenings[ord[i]]]]]

new_movies(mv) == [i \in 1..Len(mv) |-> NewMovie(mv[i])]

\* positional parameters send_email declares after self, none with a default
SendEmailParams == 2
\* positional arguments of the call email_sender.send_email(new_movies)
SendEmailArgs == 1

(***************************************************************************)
(* The state machine                                                       *)
(***************************************************************************)

Init ==
    /\ pc = "idle"
    /\ run = 0
    /\ listing \in [Dates -> Pages]
    /\ disk \in InitStores
    /\ db = disk
    /\ movies = <<>>
    /\ dateIdx = 1
    /\ detIdx = 1
    /\ knownAtStart = Titles(disk)
    /\ diskAtStart = disk
    /\ stream = <<>>
    /\ detailStatus = NoStatus
    /\ saveStatus = NoStatus
    /\ handed = <<>>
    /\ lastListing = "none"
    /\ faulted = FALSE
    /\ saveCalls = NoCalls
    /\ lastExisting = Titles(disk)
    /\ soup = <<>>
    /\ production = <<>>

\* main, line 231: KinoScraper() connects to the committed store; the scheduler
\* starts a run when no run is in progress
StartRun ==
    /\ pc \in {"idle", "closed", "crashed"}
    /\ run < MaxRuns
    /\ run' = run + 1
    /\ pc' = "parse"
    /\ db' = disk
    /\ movies' = <<>>
    /\ dateIdx' = 1
    /\ detIdx' = 1
    /\ knownAtStart' = Titles(disk)
    /\ diskAtStart' = disk
    /\ stream' = <<>>
    /\ detailStatus' = NoStatus
    /\ saveStatus' = NoStatus
    /\ handed' = <<>>
    /\ lastListing' = "none"
    /\ saveCalls' = NoCalls
    /\ lastExisting' = Titles(disk)
    /\ UNCHANGED <<listing, disk, faulted, soup, production>>

\* an uncaught exception ends the process; the connection's pending writes are lost
Crash ==
    /\ pc' = "crashed"
    /\ db' = disk

\* _parse_movies(date) for the next date of the window.  resp is the outcome of
\* requests.get: "ok" (status 200), "status" (another status) or "exc"
\* (requests raises, nothing catches it)
ParseMovies ==
    /\ pc = "parse"
    /\ \E readFails \in BOOLEAN, resp \in {"ok", "status", "exc"} :
         LET d == dateIdx
             existing == fetch_movie_titles_and_years(db, readFails)
             raw_html == IF resp = "ok" THEN listing[d] ELSE <<>>
         IN  /\ faulted' = (faulted \/ readFails \/ resp # "ok")
             /\ lastExisting' = { m[1] : m \in existing }
             /\ IF resp = "exc"
                  THEN /\ Crash
                       /\ lastListing' = "exc"
                       /\ UNCHANGED <<movies, dateIdx, stream>>
                  ELSE /\ movies' = IF raw_html = <<>> THEN movies
                                    ELSE ParseEntries(movies, d, raw_html, existing)
                       /\ stream' = IF raw_html = <<>> THEN stream
                                    ELSE stream \o Fed(d, raw_html, existing)
                       /\ lastListing' = IF resp = "status" THEN "status"
                                         ELSE IF raw_html = <<>> THEN "empty" ELSE "ok"
                       /\ dateIdx' = d + 1
                       /\ pc' = IF d < W THEN "parse"
                                ELSE IF movies' = <<>> THEN "notify" ELSE "details"
                       /\ db' = db
    /\ UNCHANGED <<run, listing, disk, detIdx, knownAtStart, diskAtStart,
                   detailStatus, saveStatus, handed, saveCalls, soup, production>>

\* _fetch_movie_details(movie) for the next value of self.movies
FetchMovieDetails ==
    /\ pc = "details"
    /\ detIdx <= Len(movies)
    /\ LET movie == movies[detIdx]
           t == movie.title
           n == Len(DateTimes(movie.screenings, 1))
       IN  \E resp \in {"ok", "status", "exc"} :
             IF resp = "exc"
               THEN /\ Crash
                    /\ detailStatus' = [detailStatus EXCEPT ![t] = "exc"]
                    /\ faulted' = TRUE
                    /\ UNCHANGED <<movies, detIdx, disk, saveStatus, saveCalls>>
               ELSE /\ detIdx' = detIdx + 1
                    /\ pc' = IF detIdx < Len(movies) THEN "details" ELSE "notify"
                    /\ IF resp = "status"
                         THEN /\ detailStatus' = [detailStatus EXCEPT ![t] = "status"]
                              /\ faulted' = TRUE
                              /\ UNCHANGED <<movies, db, disk, saveStatus, saveCalls>>
                         ELSE \E page \in DetailPages, mfail \in {"none", "execute", "commit"} :
                                LET r1 == save_movie(db, t, page.genre, page.description,
                                                     page.year, page.countries, mfail)
                                IN  \E sfail \in (IF r1.id = None THEN {0} ELSE 0..(n + 1)) :
                                      LET r2 == save_screenings(r1.store, r1.id,
                                                                movie.screenings, sfail)
                                      IN  /\ detailStatus' = [detailStatus EXCEPT ![t] = "ok"]
                                          /\ movies' = [movies EXCEPT ![detIdx].details = <<page>>]
                                          /\ db' = r2.store
                                          /\ disk' = IF r2.commit THEN r2.store
                                                     ELSE IF r1.commit THEN r1.store
                                                     ELSE disk
                                          /\ saveStatus' = [saveStatus EXCEPT ![t] =
                                                IF mfail # "none" THEN "movie failed"
                                                ELSE IF sfail # 0 THEN "screenings failed"
                                                ELSE "saved"]
                                          /\ saveCalls' = [saveCalls EXCEPT ![t] = @ + 1]
                                          /\ faulted' = (faulted \/ mfail # "none" \/ sfail # 0)
    /\ UNCHANGED <<run, listing, dateIdx, knownAtStart, diskAtStart, stream,
                   handed, lastListing, lastExisting, soup, production>>

\* send_new_movies_email without the test of the list
SendNewMoviesEmail_unconditional ==
    /\ pc = "notify"
    /\ handed' = <<new_movies(movies)>>
    /\ IF SendEmailArgs = SendEmailParams
         THEN pc' = "log" /\ db' = db
         ELSE Crash
    /\ UNCHANGED <<run, listing, disk, movies, dateIdx, detIdx, knownAtStart,
                   diskAtStart, stream, detailStatus, saveStatus, lastListing, faulted,
                   saveCalls, lastExisting, soup, production>>

\* send_new_movies_email: a non-empty list is passed to EmailSender().send_email,
\* and the call raises TypeError when it does not bind send_email's parameters
SendNewMoviesEmail ==
    /\ pc = "notify"
    /\ LET list == new_movies(movies)
       IN  IF list # <<>>
             THEN /\ handed' = <<list>>
                  /\ IF SendEmailArgs = SendEmailParams
                       THEN pc' = "log" /\ db' = db
                       ELSE Crash
             ELSE /\ handed' = handed
                  /\ pc' = "log"
                  /\ db' = db
    /\ UNCHANGED <<run, listing, disk, movies, dateIdx, detIdx, knownAtStart,
                   diskAtStart, stream, detailStatus, saveStatus, lastListing, faulted,
                   saveCalls, lastExisting, soup, production>>

\* main, lines 239-244: log the collected movies, then close_db()
CloseDb ==
    /\ pc = "log"
    /\ pc' = "closed"
    /\ db' = disk
    /\ UNCHANGED <<run, listing, disk, movies, dateIdx, detIdx, knownAtStart,
                   diskAtStart, stream, detailStatus, saveStatus, handed,
                   lastListing, faulted, saveCalls, lastExisting, soup, production>>

Next ==
    \/ StartRun
    \/ ParseMovies
    \/ FetchMovieDetails
    \/ SendNewMoviesEmail
    \/ CloseDb

Spec == Init /\ [][Next]_vars

(***************************************************************************)
(* Helpers of the properties                                               *)
(***************************************************************************)

Ids(store) == { r.id : r \in store.movies }

\* no Movie row and no Screening row of the store is absent from `before`
NoNewRows(before, store) ==
    /\ Ids(store) \subseteq Ids(before)
    /\ store.screenings \subseteq before.screenings

HandedTitles == IF handed = <<>> THEN {}
                ELSE { handed[1][i].title : i \in 1..Len(handed[1]) }

\* the rows of title t that this run has added to the store
AddedFor(t, store) ==
    LET added == { r \in store.movies : r.title = t /\ r.id \notin Ids(diskAtStart) }
        mine  == { r.id : r \in { q \in store.movies : q.title = t } }
    IN  [movies |-> added,
         screenings |-> { s \in store.screenings \ diskAtStart.screenings : s[1] \in mine }]

(***************************************************************************)
(* C1                                                                      *)
(***************************************************************************)

C2_OnlyUnseenTitlesNotified ==
    HandedTitles \cap knownAtStart = {}

(***************************************************************************)
(* C3                                                                      *)
(***************************************************************************)

\* C3: a title whose detail fetch returned a non-success status in this run has
\* no row written for it in this run and is not in the list passed to send_email.
C3_FailedDetailDropped ==
    \A t \in TitleSet :
        detailStatus[t] = "status" =>
            /\ AddedFor(t, db).movies = {}
            /\ AddedFor(t, db).screenings = {}
            /\ t \notin HandedTitles

(***************************************************************************)
(* C4                                                                      *)
(***************************************************************************)

\* C4: no failure of a unit of work is fatal: no run of main() is ended by an
\* uncaught exception before it closes the database connection.
C4_NoFailureIsFatal ==
    pc # "crashed"

(***************************************************************************)
(* C5                                                                      *)
(***************************************************************************)

\* C5: a date whose listing fetch fails (non-success status or transport error)
\* or returns an empty payload leaves self.movies unchanged, and the run goes on
\* with the next date (or, after the last date, with the detail fetches).
C5_FailedDateSkipped ==
    [][ (pc = "parse" /\ lastListing' \in {"status", "exc", "empty"})
          => (movies' = movies /\ dateIdx' = dateIdx + 1
              /\ pc' \in {"parse", "details", "notify"}) ]_vars

(***************************************************************************)
(* C6                                                                      *)
(***************************************************************************)

\* the Movie row of an enriched record and every Screening row of its
\* screenings are committed
Persisted(m, store) ==
    \E r \in store.movies :
        /\ r.title = m.title
        /\ r.year = m.details[1].year
        /\ LET pairs == DateTimes(m.screenings, 1)
           IN  \A i \in 1..Len(pairs) : <<r.id, pairs[i][1], pairs[i][2]>> \in store.screenings

\* the titles before position i of self.movies
Before(i) == { movies[j].title : j \in 1..(i - 1) }

C7_KnownTitleNeverFetched ==
    \A t \in knownAtStart :
        /\ IndexOf(movies, t) = {}
        /\ detailStatus[t] = "none"

(***************************************************************************)
(* C8                                                                      *)
(***************************************************************************)

Occurrences(t) == { i \in 1..Len(stream) : stream[i].title = t }

OccurrencesOn(t, d) == { i \in Occurrences(t) : stream[i].date = d }

Min(S) == CHOOSE x \in S : \A y \in S : x <= y

Max(S) == CHOOSE x \in S : \A y \in S : x >= y

\* C8: self.movies holds exactly one record per distinct title of the tuples
\* fed to it, in order of first occurrence; the record's link is the link of the
\* title's first tuple; its screenings have one key per date of the title's
\* tuples, and the value of a key is the time list of that date's tuple alone
\* (of the last one, when the title occurs twice on one date).
C8_OneRecordPerTitle ==
    /\ { movies[i].title : i \in 1..Len(movies) } = { stream[i].title : i \in 1..Len(stream) }
    /\ \A i, j \in 1..Len(movies) :
          /\ movies[i].title = movies[j].title => i = j
          /\ i < j => Min(Occurrences(movies[i].title)) < Min(Occurrences(movies[j].title))
    /\ \A i \in 1..Len(movies) :
          LET t == movies[i].title
          IN  /\ movies[i].link = stream[Min(Occurrences(t))].link
              /\ DOMAIN movies[i].screenings = { stream[k].date : k \in Occurrences(t) }
              /\ \A d \in DOMAIN movies[i].screenings :
                    movies[i].screenings[d] = stream[Max(OccurrencesOn(t, d))].times

\* a record holds two date keys with different time lists, and a later tuple of
\* its title carried another link than the first
C8_Witness ==
    \E i \in 1..Len(movies) :
        /\ \E d1, d2 \in DOMAIN movies[i].screenings :
              d1 # d2 /\ movies[i].screenings[d1] # movies[i].screenings[d2]
        /\ \E k \in Occurrences(movies[i].title) : stream[k].link # movies[i].link

(***************************************************************************)
(* C9                                                                      *)
(***************************************************************************)

\* C9: a step of _fetch_movie_details in which save_movie fails (it returns
\* None) leaves the screenings table unchanged, in the connection and on disk.
C9_NoScreeningsAfterFailedSave ==
    [][ (pc = "details" /\ saveStatus'[movies[detIdx].title] = "movie failed")
          => (db'.screenings = db.screenings /\ disk'.screenings = disk.screenings) ]_vars

\* save_movie has failed for a title that has screening times to save
C9_Witness ==
    \E i \in 1..Len(movies) :
        /\ saveStatus[movies[i].title] = "movie failed"
        /\ DateTimes(movies[i].screenings, 1) # <<>>

(***************************************************************************)
(* C10                                                                     *)
(***************************************************************************)

\* at most one Movie row per (title, year) pair, and per id
UniqueTitleYear(store) ==
    \A r1, r2 \in store.movies :
        ((r1.title = r2.title /\ r1.year = r2.year) \/ r1.id = r2.id) => r1 = r2

\* C10: the store never holds two Movie rows with the same (title, year); a
\* save_movie that succeeds for a pair that exists leaves the number of Movie
\* rows unchanged, sets genre, description and countries of the existing row,
\* and returns that row's id (the Screening rows it adds carry that id).
C10_OneRowPerTitleYear ==
    /\ [](UniqueTitleYear(db) /\ UniqueTitleYear(disk))
    /\ [][ (/\ pc = "details"
            /\ saveStatus'[movies[detIdx].title] \in {"saved", "screenings failed"})
           => LET page == movies'[detIdx].details[1]
              IN  \A r \in db.movies :
                     (r.title = movies[detIdx].title /\ r.year = page.year)
                        => /\ Cardinality(db'.movies) = Cardinality(db.movies)
                           /\ [r EXCEPT !.genre = page.genre,
                                        !.description = page.description,
                                        !.countries = page.countries] \in db'.movies
                           /\ \A s \in db'.screenings \ db.screenings : s[1] = r.id ]_vars

\* the row of title A that the store held at the start has been updated in
\* place by a save_movie for the same (title, year)
C10_Witness ==
    /\ rowA \in diskAtStart.movies
    /\ [rowA EXCEPT !.genre = "Dramat", !.description = "opis",
                    !.countries = "USA, UK"] \in disk.movies
    /\ Cardinality(disk.movies) = Cardinality(diskAtStart.movies)

(***************************************************************************)
(* main.py: the production block of a detail page.  A text is the sequence *)
(* of its characters.                                                      *)
(***************************************************************************)

UpperCase == <<"A", "B", "C", "D", "E", "F", "G", "H", "I", "J", "K", "L", "M", "N", "O", "P", "Q", "R", "S", "T", "U", "V", "W", "X", "Y", "Z">>
LowerCase == <<"a", "b", "c", "d", "e", "f", "g", "h", "i", "j", "k", "l", "m", "n", "o", "p", "q", "r", "s", "t", "u", "v", "w", "x", "y", "z">>
Digits == {"0", "1", "2", "3", "4", "5", "6", "7", "8", "9"}
Whitespace == {" ", "\n", "\t"}

\* str.lower()
Lower(s) ==
    [i \in 1..Len(s) |->
        IF \E k \in 1..Len(UpperCase) : UpperCase[k] = s[i]
          THEN LowerCase[CHOOSE k \in 1..Len(UpperCase) : UpperCase[k] = s[i]]
          ELSE s[i]]

\* sub in s
Contains(s, sub) ==
    \E i \in 0..(Len(s) - Len(sub)) : SubSeq(s, i + 1, i + Len(sub)) = sub

\* s.replace(old, new): every occurrence of old, left to right, case-sensitive
RECURSIVE Replace(_, _, _)
Replace(s, old, new) ==
    IF Len(s) < Len(old) THEN s
    ELSE IF SubSeq(s, 1, Len(old)) = old
           THEN new \o Replace(SubSeq(s, Len(old) + 1, Len(s)), old, new)
           ELSE <<Head(s)>> \o Replace(Tail(s), old, new)

\* s.strip()
RECURSIVE Strip(_)
Strip(s) ==
    IF s = <<>> THEN s
    ELSE IF Head(s) \in Whitespace THEN Strip(Tail(s))
    ELSE IF s[Len(s)] \in Whitespace THEN Strip(SubSeq(s, 1, Len(s) - 1))
    ELSE s

\* re.search(r'(\d{4})$', s): the position of the group, 0 when there is no
\* match; $ matches at the end and before a newline that ends the text
YearMatch(s) ==
    LET fourAt(i) == i >= 1 /\ \A k \in i..(i + 3) : s[k] \in Digits
        end == IF s # <<>> /\ s[Len(s)] = "\n" /\ fourAt(Len(s) - 4)
                 THEN Len(s) - 1 ELSE Len(s)
    IN  IF fourAt(end - 3) THEN end - 3 ELSE 0

label == <<"p", "r", "o", "d", "u", "k", "c", "j", "a", ":">>
Unknown == <<"U", "n", "k", "n", "o", "w", "n">>

\* _clean_production_text
clean_production_text(production_text) ==
    LET text == IF Contains(Lower(production_text), label)
                  THEN Strip(Replace(production_text, label, <<>>))
                  ELSE production_text
        m == YearMatch(text)
        year == IF m # 0 THEN SubSeq(text, m, m + 3) ELSE Unknown
        countries == IF m # 0 THEN Strip(Replace(text, year, <<>>)) ELSE text
    IN  <<countries, year>>

\* _fetch_production: the first div whose lowered text contains the label
RECURSIVE fetch_production(_)
fetch_production(divs) ==
    IF divs = <<>> THEN <<Unknown, Unknown>>
    ELSE IF Contains(Lower(Head(divs)), label)
           THEN clean_production_text(Strip(Head(divs)))
           ELSE fetch_production(Tail(divs))

\* the parts the production blocks of the model are made of
Labels == { <<"P", "r", "o", "d", "u", "k", "c", "j", "a", ":">>,
            <<"p", "r", "o", "d", "u", "k", "c", "j", "a", ":">>,
            <<"P", "R", "O", "D", "U", "K", "C", "J", "A", ":">>,
            <<>> }
CountryTexts == { <<" ", "U", "S", "A", ",", " ", "U", "K">>,
                  <<" ", "P", "o", "l", "s", "k", "a">>,
                  <<>> }
YearTexts == { <<" ", "2", "0", "2", "1">>,
               <<" ", "1", "9", "9", "9", "\n">>,
               <<" ", "2", "1">>,
               <<>> }
ProductionTexts == { l \o c \o y : l \in Labels, c \in CountryTexts, y \in YearTexts }

\* another informational block of the page
OtherDiv == <<"c", "z", "a", "s", ":", " ", "9", "0">>

\* the div lists of the detail pages of the model
Soups == { <<t>> : t \in ProductionTexts } \cup { <<OtherDiv, t>> : t \in ProductionTexts }

\* the pipeline at rest, with nothing upstream and an empty store
PipelineIdle ==
    /\ pc = "idle"
    /\ run = 0
    /\ listing = [d \in Dates |-> <<>>]
    /\ disk = EmptyStore
    /\ db = disk
    /\ movies = <<>>
    /\ dateIdx = 1
    /\ detIdx = 1
    /\ knownAtStart = {}
    /\ diskAtStart = disk
    /\ stream = <<>>
    /\ detailStatus = NoStatus
    /\ saveStatus = NoStatus
    /\ handed = <<>>
    /\ lastListing = "none"
    /\ faulted = FALSE
    /\ saveCalls = NoCalls
    /\ lastExisting = {}

InitProduction ==
    /\ PipelineIdle
    /\ soup \in Soups
    /\ production = <<>>

\* line 171: countries, year = self._fetch_production(soup)
FetchProduction ==
    /\ production = <<>>
    /\ production' = <<fetch_production(soup)>>
    /\ UNCHANGED <<pc, run, listing, disk, db, movies, dateIdx, detIdx, knownAtStart,
                   diskAtStart, stream, detailStatus, saveStatus, handed, lastListing,
                   faulted, saveCalls, lastExisting, soup>>

NextProduction == FetchProduction

SpecProduction == InitProduction /\ [][NextProduction]_vars

(***************************************************************************)
(* C11                                                                     *)
(***************************************************************************)

ProductionExample == <<"P", "r", "o", "d", "u", "k", "c", "j", "a", ":", " ", "U", "S", "A", ",", " ", "U", "K", " ", "2", "0", "2", "1">>

\* C11: for a production block whose text is "Produkcja: USA, UK 2021",
\* _fetch_production returns countries "USA, UK" and year "2021".
C11_ProductionExample ==
    (production # <<>> /\ soup[Len(soup)] = ProductionExample)
        => production[1] = <<<<"U", "S", "A", ",", " ", "U", "K">>, <<"2", "0", "2", "1">>>>

(***************************************************************************)
(* C12                                                                     *)
(***************************************************************************)

\* C12: when the list of new movies of a run is empty, no EmailSender is made
\* and send_email is not called in that run.
C12_EmptyListNotDelivered ==
    new_movies(movies) = <<>> => handed = <<>>

\* send_new_movies_email has returned for an empty list, without a delivery
C12_Witness ==
    /\ pc = "log"
    /\ new_movies(movies) = <<>>
    /\ handed = <<>>

(***************************************************************************)
(* C13                                                                     *)
(***************************************************************************)

\* C13: in a run save_movie is called at most once for a title, and only for a
\* title whose detail fetch succeeded; a row added for a title implies that
\* fetch; the store is not written while the dates are parsed; and every dedup
\* check of the run gets the known-title set the run started with.
C13_WriteOnceAfterFetch ==
    /\ \A t \in TitleSet :
          /\ saveCalls[t] <= 1
          /\ saveCalls[t] > 0 => detailStatus[t] = "ok"
          /\ (AddedFor(t, db).movies # {} \/ AddedFor(t, db).screenings # {})
                => detailStatus[t] = "ok"
    /\ pc = "parse" => (db = diskAtStart /\ disk = diskAtStart)
    /\ lastExisting = knownAtStart

(***************************************************************************)
(* C14                                                                     *)
(***************************************************************************)

\* the Movie rows of title t and the Screening rows that refer to them
RowsOf(t, store) ==
    LET mine == { r \in store.movies : r.title = t }
    IN  [movies |-> mine,
         screenings |-> { s \in store.screenings : s[1] \in { r.id : r \in mine } }]

\* C14: the rows of every title that was in the store when the run started are
\* as they were then: no Screening row is added for it and its Movie row is not
\* updated, whatever the listing shows for it.
C14_KnownTitleRowsUnchanged ==
    \A t \in knownAtStart :
        /\ RowsOf(t, db) = RowsOf(t, diskAtStart)
        /\ RowsOf(t, disk) = RowsOf(t, diskAtStart)

====
